---- MODULE Spec2Model ----
(***************************************************************************)
(* A state-machine model of bentoml/artifact/pytorch_model_artifact.py:    *)
(* PytorchModelArtifact instances (name, _file_extension, _model), the     *)
(* files they save to and load from, the importability of the torch        *)
(* package, and the pip dependency lists of the BentoServiceEnv objects    *)
(* handed to set_dependencies.                                             *)
(*                                                                         *)
(* Python strings that the code concatenates or inspects (names, file      *)
(* extensions, directories, paths) are sequences of one-character strings, *)
(* so that name + extension and os.path.join are computed, not assumed.    *)
(***************************************************************************)
EXTENDS Integers, Sequences, FiniteSets, TLC

\* ------------------------------------------------------------ bounds
\* Number of distinct torch.nn.Module instances a caller may hand to pack.
NumUserModels == 2

\* ------------------------------------------------------------ strings
net == <<"n", "e", "t">>
dot_pt == <<".", "p", "t">>
tmp_x == <<"/", "t", "m", "p", "/", "x">>
sep == "/"

\* The (name, file_extension) pairs artifacts are constructed with.  The first
\* is the documented PytorchModelArtifact('net') with the default extension;
\* the second names the same file through a different split of name and
\* extension; the third names a different file.
ArtifactArgs == {<<net, dot_pt>>, <<net \o dot_pt, <<>>>>, <<net, <<>>>>}

\* Directories passed to load and save: the same directory, written with
\* and without a trailing separator.
Dirs == {tmp_x, tmp_x \o <<sep>>}

Artifacts == {1, 2}
Envs == {1}

\* ------------------------------------------------------------ objects
\* A Python object: its class, its value (what pickling preserves) and its
\* identity (what pickling does not preserve).  Callers' objects have
\* identities 1, 2, ...; identity 0 is None, or an object no caller holds: one
\* made by the unpickler.
None == [cls |-> "NoneType", val |-> 0, oid |-> 0]
AStr == [cls |-> "str", val |-> 7, oid |-> 0]
Net(v, i) == [cls |-> "Net", val |-> v, oid |-> i]

UserModels == {Net(i, i) : i \in 1..NumUserModels}
UserObjects == UserModels \cup {None, AStr}

\* The direct base class of each class (Net is the docstring's nn.Module
\* subclass).
Base(c) ==
    CASE c = "Net" -> "torch.nn.Module"
      [] c = "torch.nn.Module" -> "object"
      [] c = "str" -> "object"
      [] c = "NoneType" -> "object"
      [] OTHER -> "object"

RECURSIVE IsSubclass(_, _)
IsSubclass(c, k) ==
    IF c = k THEN TRUE
    ELSE IF c = "object" THEN FALSE
    ELSE IsSubclass(Base(c), k)

isinstance(obj, k) == IsSubclass(obj.cls, k)

\* type(model), as formatted into the InvalidArgument message of load.
type(obj) == obj.cls

\* ------------------------------------------------------------ pickling
\* File contents.  cloudpickle.dump writes the class and value of the object;
\* cloudpickle.load builds a new object from them (None is a singleton).
NoFile == [kind |-> "absent", cls |-> "", val |-> 0]
Garbage == [kind |-> "garbage", cls |-> "", val |-> 0]
cloudpickle_dump(obj) == [kind |-> "pickle", cls |-> obj.cls, val |-> obj.val]
cloudpickle_load(bytes) ==
    IF bytes.cls = "NoneType" THEN None
    ELSE [cls |-> bytes.cls, val |-> bytes.val, oid |-> 0]

\* What something other than an artifact may put at a path.
ForeignContents == {cloudpickle_dump(AStr), Garbage}

\* name, file_extension, model: the fields of each artifact.
\* fs: the content of each file.  torch_importable: whether `import torch`
\* succeeds.  pip_dependencies: each environment's dependency list.
\* last: the step just taken (the call, its arguments and how it ended).
\* missed: whether some pack or load has raised MissingDependencyException.
VARIABLES name, file_extension, model, fs, torch_importable,
          pip_dependencies, last, missed

vars == <<name, file_extension, model, fs, torch_importable,
          pip_dependencies, last, missed>>

\* ------------------------------------------------------------ paths
\* posixpath.join(a, b)
join(a, b) ==
    IF b # <<>> /\ Head(b) = sep THEN b
    ELSE IF a = <<>> \/ a[Len(a)] = sep THEN a \o b
    ELSE a \o <<sep>> \o b

\* Variant: the extension is left out of the file name.
file_path_no_extension(self, base_path) == join(base_path, name[self])

file_path(self, base_path) == join(base_path, name[self] \o file_extension[self])

Paths == {join(d, c[1] \o c[2]) : d \in Dirs, c \in ArtifactArgs}

\* ------------------------------------------------------------ results
\* What a call does: how it ends (outcome is "ok" or the exception raised), the
\* exception's message (or the warning logged), the value of self._model when
\* the call ends, and the value returned.
NoReturn == [kind |-> "none", self |-> 0, obj |-> None]
ReturnSelf(self) == [kind |-> "artifact", self |-> self, obj |-> None]
ReturnObject(obj) == [kind |-> "object", self |-> 0, obj |-> obj]

Raise(self, exc, msg) ==
    [outcome |-> exc, msg |-> msg, model |-> model[self], ret |-> NoReturn]

\* Variant: a failed import is remembered and never tried again.
import_torch_cached == torch_importable /\ ~missed

\* `import torch` succeeds exactly when the package is importable now.
import_torch == torch_importable

TorchRequired == <<"torch package is required to use PytorchModelArtifact">>

CanOnlyPack == <<"PytorchModelArtifact can only pack type 'torch.nn.Module'">>

\* Variant: self._model is assigned before the type test.
pack_assign_first(self, m) ==
    IF ~import_torch
    THEN Raise(self, "MissingDependencyException", TorchRequired)
    ELSE IF ~isinstance(m, "torch.nn.Module")
    THEN [Raise(self, "InvalidArgument", CanOnlyPack) EXCEPT !.model = m]
    ELSE [outcome |-> "ok", msg |-> <<>>, model |-> m, ret |-> ReturnSelf(self)]

\* Variant: a model already stored is not overwritten.
pack_keep_first(self, m) ==
    IF ~import_torch
    THEN Raise(self, "MissingDependencyException", TorchRequired)
    ELSE IF ~isinstance(m, "torch.nn.Module")
    THEN Raise(self, "InvalidArgument", CanOnlyPack)
    ELSE [outcome |-> "ok", msg |-> <<>>,
          model |-> IF model[self] = None THEN m ELSE model[self],
          ret |-> ReturnSelf(self)]

\* Variant: the type test is left out.
pack_unchecked(self, m) ==
    IF ~import_torch
    THEN Raise(self, "MissingDependencyException", TorchRequired)
    ELSE [outcome |-> "ok", msg |-> <<>>, model |-> m, ret |-> ReturnSelf(self)]

pack(self, m) ==
    IF ~import_torch
    THEN Raise(self, "MissingDependencyException", TorchRequired)
    ELSE IF ~isinstance(m, "torch.nn.Module")
    THEN Raise(self, "InvalidArgument", CanOnlyPack)
    ELSE [outcome |-> "ok", msg |-> <<>>, model |-> m, ret |-> ReturnSelf(self)]

ExpectingButActually == "Expecting PytorchModelArtifact loaded object type to be 'torch.nn.Module' but actually it is "

\* What load does once torch is imported and the file is open.
load_opened(self, bytes) ==
    IF bytes.kind = "garbage"
    THEN Raise(self, "UnpicklingError", <<>>)
    ELSE LET m == cloudpickle_load(bytes) IN
         IF ~isinstance(m, "torch.nn.Module")
         THEN Raise(self, "InvalidArgument", <<ExpectingButActually, type(m)>>)
         ELSE pack(self, m)

\* Variant: the file is opened before torch is imported.
load_open_first(self, path) ==
    LET bytes == fs[file_path(self, path)] IN
    IF bytes.kind = "absent"
    THEN Raise(self, "FileNotFoundError", <<>>)
    ELSE IF ~import_torch
    THEN Raise(self, "MissingDependencyException", TorchRequired)
    ELSE load_opened(self, bytes)

\* Variant: the message names the expected type, not the one observed.
load_names_expected(self, path) ==
    IF ~import_torch
    THEN Raise(self, "MissingDependencyException", TorchRequired)
    ELSE LET bytes == fs[file_path(self, path)] IN
         IF bytes.kind = "absent"
         THEN Raise(self, "FileNotFoundError", <<>>)
         ELSE LET r == load_opened(self, bytes) IN
              IF r.outcome = "InvalidArgument"
              THEN [r EXCEPT !.msg = <<ExpectingButActually, "torch.nn.Module">>]
              ELSE r

\* Variant: the unpickled object is stored before the type test.
load_assign_first(self, path) ==
    IF ~import_torch
    THEN Raise(self, "MissingDependencyException", TorchRequired)
    ELSE LET bytes == fs[file_path(self, path)] IN
         IF bytes.kind = "absent"
         THEN Raise(self, "FileNotFoundError", <<>>)
         ELSE LET r == load_opened(self, bytes) IN
              IF r.outcome = "InvalidArgument"
              THEN [r EXCEPT !.model = cloudpickle_load(bytes)]
              ELSE r

\* open(path, 'rb') followed by cloudpickle.load, the type test and pack.
load(self, path) ==
    IF ~import_torch
    THEN Raise(self, "MissingDependencyException", TorchRequired)
    ELSE LET bytes == fs[file_path(self, path)] IN
         IF bytes.kind = "absent"
         THEN Raise(self, "FileNotFoundError", <<>>)
         ELSE IF bytes.kind = "garbage"
         THEN Raise(self, "UnpicklingError", <<>>)
         ELSE LET m == cloudpickle_load(bytes) IN
              IF ~isinstance(m, "torch.nn.Module")
              THEN Raise(self, "InvalidArgument", <<ExpectingButActually, type(m)>>)
              ELSE pack(self, m)

get(self) == model[self]

\* Variant: nothing is written while no model is stored.
save_if_present(self, dst) ==
    IF model[self] = None THEN fs
    ELSE [fs EXCEPT ![file_path(self, dst)] = cloudpickle_dump(model[self])]

\* open(path, 'wb') followed by cloudpickle.dump: the file system afterwards.
save(self, dst) ==
    [fs EXCEPT ![file_path(self, dst)] = cloudpickle_dump(model[self])]

\* BentoServiceEnv.add_pip_dependencies_if_missing
RECURSIVE add_pip_dependencies_if_missing(_, _)
add_pip_dependencies_if_missing(deps, pkgs) ==
    IF pkgs = <<>> THEN deps
    ELSE add_pip_dependencies_if_missing(
             IF \E i \in 1..Len(deps) : deps[i] = Head(pkgs)
             THEN deps ELSE Append(deps, Head(pkgs)),
             Tail(pkgs))

\* Variant: the package is added whether or not it is already listed.
set_dependencies_always(deps) == Append(deps, "torch")

set_dependencies(deps) == add_pip_dependencies_if_missing(deps, <<"torch">>)

DependencyWarning == <<"BentoML by default does not include spacy and torchvision package when using PytorchModelArtifact.">>

\* ------------------------------------------------------------ state machine
Call(op, self, obj, path, env, r) ==
    [op |-> op, self |-> self, obj |-> obj, path |-> path, env |-> env,
     outcome |-> r.outcome, msg |-> r.msg, ret |-> r.ret]

Ok(ret, msg) == [outcome |-> "ok", msg |-> msg, ret |-> ret]

Constructed == Call("__init__", 0, None, <<>>, 0, Ok(NoReturn, <<>>))
Outside == Call("outside", 0, None, <<>>, 0, Ok(NoReturn, <<>>))

\* Dependency lists an environment may hold before any artifact touches it.
InitialDeps == {<<"numpy">>, <<"numpy", "torch">>}

\* Artifact 1 is PytorchModelArtifact('net'); artifact 2 takes any ArtifactArgs.
Init ==
    /\ \E args \in ArtifactArgs :
          /\ name = [a \in Artifacts |-> IF a = 1 THEN net ELSE args[1]]
          /\ file_extension = [a \in Artifacts |-> IF a = 1 THEN dot_pt ELSE args[2]]
    /\ model = [a \in Artifacts |-> None]
    /\ fs = [p \in Paths |-> NoFile]
    /\ torch_importable \in BOOLEAN
    /\ pip_dependencies \in [Envs -> InitialDeps]
    /\ last = Constructed
    /\ missed = FALSE

Pack(self, obj) ==
    LET r == pack(self, obj) IN
    /\ model' = [model EXCEPT ![self] = r.model]
    /\ last' = Call("pack", self, obj, <<>>, 0, r)
    /\ missed' = (missed \/ r.outcome = "MissingDependencyException")
    /\ UNCHANGED <<name, file_extension, fs, torch_importable, pip_dependencies>>

Load(self, path) ==
    LET r == load(self, path) IN
    /\ model' = [model EXCEPT ![self] = r.model]
    /\ last' = Call("load", self, None, path, 0, r)
    /\ missed' = (missed \/ r.outcome = "MissingDependencyException")
    /\ UNCHANGED <<name, file_extension, fs, torch_importable, pip_dependencies>>

Get(self) ==
    /\ last' = Call("get", self, None, <<>>, 0, Ok(ReturnObject(get(self)), <<>>))
    /\ UNCHANGED <<name, file_extension, model, fs, torch_importable,
                   pip_dependencies, missed>>

Save(self, dst) ==
    /\ fs' = save(self, dst)
    /\ last' = Call("save", self, None, dst, 0, Ok(NoReturn, <<>>))
    /\ UNCHANGED <<name, file_extension, model, torch_importable,
                   pip_dependencies, missed>>

SetDependencies(self, env) ==
    /\ pip_dependencies' =
          [pip_dependencies EXCEPT ![env] = set_dependencies(@)]
    /\ last' = Call("set_dependencies", self, None, <<>>, env,
                    Ok(NoReturn, DependencyWarning))
    /\ UNCHANGED <<name, file_extension, model, fs, torch_importable, missed>>

\* The torch package is installed or removed (or hidden from the importer).
SetImportable(b) ==
    /\ torch_importable # b
    /\ torch_importable' = b
    /\ last' = Outside
    /\ UNCHANGED <<name, file_extension, model, fs, pip_dependencies, missed>>

\* Something other than an artifact writes a file an artifact may load.
ForeignWrite(p, bytes) ==
    /\ fs[p] # bytes
    /\ fs' = [fs EXCEPT ![p] = bytes]
    /\ last' = Outside
    /\ UNCHANGED <<name, file_extension, model, torch_importable,
                   pip_dependencies, missed>>

Next ==
    \/ \E self \in Artifacts, obj \in UserObjects : Pack(self, obj)
    \/ \E self \in Artifacts, path \in Dirs : Load(self, path)
    \/ \E self \in Artifacts : Get(self)
    \/ \E self \in Artifacts, dst \in Dirs : Save(self, dst)
    \/ \E self \in Artifacts, env \in Envs : SetDependencies(self, env)
    \/ \E b \in BOOLEAN : SetImportable(b)
    \/ \E p \in Paths, bytes \in ForeignContents : ForeignWrite(p, bytes)

Spec == Init /\ [][Next]_vars

\* ------------------------------------------------------------ properties
IsModule(obj) == isinstance(obj, "torch.nn.Module")
MissingDependency == "MissingDependencyException"

\* The file dir/<name><extension> of an artifact.
NamedFile(self, dir) == join(dir, name[self] \o file_extension[self])

\* How often a package is listed.
Occurrences(deps, pkg) == Cardinality({i \in 1..Len(deps) : deps[i] = pkg})

\* C1: with torch importable, pack of an object that is not a torch.nn.Module
\* raises InvalidArgument, whatever the artifact holds, and get() returns
\* afterwards what it returned before.
C1_PackRejectsNonModule ==
    [][(/\ last'.op = "pack"
        /\ torch_importable
        /\ ~IsModule(last'.obj))
       => /\ last'.outcome = "InvalidArgument"
          /\ \A self \in Artifacts : last'.self = self => get(self)' = get(self)]_vars

C1_Witness ==
    /\ last.op = "pack"
    /\ torch_importable
    /\ ~IsModule(last.obj)
    /\ last.outcome = "InvalidArgument"
    /\ get(last.self) \in UserModels

\* C2: with torch importable, pack of a torch.nn.Module succeeds, returns the
\* artifact it was called on, and get() then returns that very object.
C2_PackStoresModule ==
    (/\ last.op = "pack"
     /\ torch_importable
     /\ IsModule(last.obj))
    => /\ last.outcome = "ok"
       /\ last.ret = ReturnSelf(last.self)
       /\ get(last.self) = last.obj

\* A pack has replaced a stored model: the artifact's file holds another model,
\* which only this artifact can have saved (the other one never held a model).
C2_Witness ==
    /\ last.op = "pack"
    /\ last.outcome = "ok"
    /\ last.obj \in UserModels
    /\ get(last.self) = last.obj
    /\ \E dir \in Dirs :
          /\ IsModule(cloudpickle_load(fs[NamedFile(last.self, dir)]))
          /\ fs[NamedFile(last.self, dir)] # cloudpickle_dump(last.obj)
    /\ \A other \in Artifacts \ {last.self} : get(other) = None

\* C3 as claimed: save writes the pickled model to dir/<name><extension>, and
\* an artifact holding no model that loads a file holding a pickled
\* torch.nn.Module from dir/<name><extension> succeeds and then holds a model
\* with the pickled class and value.
C3_RoundTrip_AsClaimed ==
    [][\A self \in Artifacts :
         /\ (last'.op = "save" /\ last'.self = self)
            => fs'[NamedFile(self, last'.path)] = cloudpickle_dump(get(self))
         /\ (/\ last'.op = "load" /\ last'.self = self
             /\ get(self) = None
             /\ IsModule(cloudpickle_load(fs[NamedFile(self, last'.path)])))
            => /\ last'.outcome = "ok"
               /\ last'.ret = ReturnSelf(self)
               /\ cloudpickle_dump(get(self)') = fs[NamedFile(self, last'.path)]]_vars

\* C3: the same, for a load made while torch is importable.
C3_RoundTrip ==
    [][\A self \in Artifacts :
         /\ (last'.op = "save" /\ last'.self = self)
            => fs'[NamedFile(self, last'.path)] = cloudpickle_dump(get(self))
         /\ (/\ last'.op = "load" /\ last'.self = self
             /\ torch_importable
             /\ get(self) = None
             /\ IsModule(cloudpickle_load(fs[NamedFile(self, last'.path)])))
            => /\ last'.outcome = "ok"
               /\ last'.ret = ReturnSelf(self)
               /\ cloudpickle_dump(get(self)') = fs[NamedFile(self, last'.path)]]_vars

\* An artifact has loaded the file another artifact of the same name and
\* extension saved its packed model to: it holds an equal model, not the same
\* object.
C3_Witness ==
    /\ last.op = "load"
    /\ last.outcome = "ok"
    /\ \E saver \in Artifacts \ {last.self} :
          /\ name[saver] = name[last.self]
          /\ file_extension[saver] = file_extension[last.self]
          /\ get(saver) \in UserModels
          /\ fs[NamedFile(saver, last.path)] = cloudpickle_dump(get(saver))
          /\ get(last.self).val = get(saver).val
          /\ get(last.self).cls = get(saver).cls
          /\ get(last.self) # get(saver)

\* C4: the stored model is always absent or a torch.nn.Module.
C4_ModelIsModuleOrAbsent ==
    \A self \in Artifacts : get(self) = None \/ IsModule(get(self))

\* A load was refused while a model loaded earlier is held.
C4_Witness ==
    /\ last.op = "load"
    /\ last.outcome = "InvalidArgument"
    /\ IsModule(get(last.self))
    /\ get(last.self).oid = 0

\* C5: while torch is not importable, every pack and every load raises
\* MissingDependencyException and get() returns afterwards what it returned
\* before.
C5_MissingDependency ==
    [][(/\ last'.op \in {"pack", "load"}
        /\ ~torch_importable)
       => /\ last'.outcome = MissingDependency
          /\ \A self \in Artifacts : last'.self = self => get(self)' = get(self)]_vars

\* A load of a file holding a valid pickled model was refused, and the model
\* held before it is still held.
C5_Witness ==
    /\ last.op = "load"
    /\ ~torch_importable
    /\ last.outcome = MissingDependency
    /\ IsModule(cloudpickle_load(fs[NamedFile(last.self, last.path)]))
    /\ get(last.self) \in UserModels
    /\ get(last.self).val # fs[NamedFile(last.self, last.path)].val

\* C6: with torch importable, load of a file that unpickles to something other
\* than a torch.nn.Module raises InvalidArgument with the type observed in the
\* message, and the stored model stays as it was.
C6_LoadRejectsNonModule ==
    [][(/\ last'.op = "load"
        /\ torch_importable
        /\ fs[NamedFile(last'.self, last'.path)].kind = "pickle"
        /\ ~IsModule(cloudpickle_load(fs[NamedFile(last'.self, last'.path)])))
       => /\ last'.outcome = "InvalidArgument"
          /\ Len(last'.msg) = 2
          /\ last'.msg[2] = fs[NamedFile(last'.self, last'.path)].cls
          /\ \A self \in Artifacts : last'.self = self => get(self)' = get(self)]_vars

C6_Witness ==
    /\ last.op = "load"
    /\ last.outcome = "InvalidArgument"
    /\ last.msg = <<ExpectingButActually, "str">>
    /\ fs[NamedFile(last.self, last.path)] = cloudpickle_dump(AStr)
    /\ get(last.self) \in UserModels

\* C7: every artifact starts with no model; a step changes an artifact's model
\* only if it is a successful pack or load of that artifact, and never back to
\* no model.
C7_OnlyPackAndLoadStore ==
    /\ \A self \in Artifacts : get(self) = None
    /\ [][\A self \in Artifacts :
            /\ get(self)' # get(self)
                  => /\ last'.op \in {"pack", "load"}
                     /\ last'.self = self
                     /\ last'.outcome = "ok"
            /\ get(self) # None => get(self)' # None]_vars

\* A model is still held after a save of it and a refused load of None.
C7_Witness ==
    /\ last.op = "load"
    /\ last.outcome = "InvalidArgument"
    /\ get(last.self) # None
    /\ fs[NamedFile(last.self, last.path)] = cloudpickle_dump(None)

\* C8: torch is never listed twice in an environment, is listed once after
\* set_dependencies, and a call on an environment that lists it changes nothing.
C8_TorchListedOnce ==
    /\ [](\A env \in Envs :
            /\ Occurrences(pip_dependencies[env], "torch") <= 1
            /\ (last.op = "set_dependencies" /\ last.env = env)
                  => Occurrences(pip_dependencies[env], "torch") = 1)
    /\ [][\A env \in Envs :
            (/\ last'.op = "set_dependencies"
             /\ last'.env = env
             /\ Occurrences(pip_dependencies[env], "torch") = 1)
            => pip_dependencies'[env] = pip_dependencies[env]]_vars

C8_Witness ==
    /\ last.op = "set_dependencies"
    /\ pip_dependencies[last.env] = <<"numpy", "torch">>
    /\ last.msg = DependencyWarning

\* C9: a pack or load raises MissingDependencyException exactly when torch is
\* not importable at the call, whatever earlier calls did; a pack of a valid
\* model succeeds whenever torch is importable at the call.
C9_NoCachedCheck ==
    last.op \in {"pack", "load"}
    => /\ last.outcome = MissingDependency <=> ~torch_importable
       /\ (torch_importable /\ last.op = "pack" /\ IsModule(last.obj))
             => last.outcome = "ok"

\* A pack succeeds after an earlier call raised MissingDependencyException.
C9_Witness ==
    /\ missed
    /\ last.op = "pack"
    /\ last.outcome = "ok"

\* C10 as claimed: save of an artifact holding no model succeeds and writes a
\* pickled None to dir/<name><extension>; load of a file holding a pickled None
\* raises InvalidArgument and leaves the stored model as it was.
C10_SaveAbsent_AsClaimed ==
    [][/\ (last'.op = "save" /\ get(last'.self) = None)
          => /\ last'.outcome = "ok"
             /\ fs'[NamedFile(last'.self, last'.path)] = cloudpickle_dump(None)
       /\ (/\ last'.op = "load"
           /\ fs[NamedFile(last'.self, last'.path)] = cloudpickle_dump(None))
          => /\ last'.outcome = "InvalidArgument"
             /\ \A self \in Artifacts : last'.self = self => get(self)' = get(self)]_vars

\* C10: the same, for a load made while torch is importable.
C10_SaveAbsent ==
    [][/\ (last'.op = "save" /\ get(last'.self) = None)
          => /\ last'.outcome = "ok"
             /\ fs'[NamedFile(last'.self, last'.path)] = cloudpickle_dump(None)
       /\ (/\ last'.op = "load"
           /\ torch_importable
           /\ fs[NamedFile(last'.self, last'.path)] = cloudpickle_dump(None))
          => /\ last'.outcome = "InvalidArgument"
             /\ \A self \in Artifacts : last'.self = self => get(self)' = get(self)]_vars

\* An artifact holding a model was refused the None that an artifact of the
\* same name and extension, holding no model, saved.
C10_Witness ==
    /\ last.op = "load"
    /\ last.outcome = "InvalidArgument"
    /\ last.msg = <<ExpectingButActually, "NoneType">>
    /\ get(last.self) \in UserModels
    /\ \E saver \in Artifacts \ {last.self} :
          /\ get(saver) = None
          /\ name[saver] = name[last.self]
          /\ file_extension[saver] = file_extension[last.self]

====
